---- MODULE Spec2Model ----
(***************************************************************************)
(* PiperTTSBridge.c: createPiperTtsConfig / freePiperTtsConfig.            *)
(*                                                                         *)
(* The heap is a finite set of blocks, each large enough for one           *)
(* SherpaOnnxOfflineTtsConfig.  A pointer is an integer: 0 is NULL,        *)
(* 1..NumBlocks are heap blocks, 1..NumStrings (in the fields of type      *)
(* const char* ) are the caller's string buffers, and the negative         *)
(* numbers are the string literals of the translation unit.  A float       *)
(* field holds the value of its decimal literal in thousandths; all bits   *)
(* zero is 0.0 and the null pointer on the target.                         *)
(***************************************************************************)
EXTENDS Integers, FiniteSets

\* Bounds of the model.
NumBlocks == 2
NumStrings == 1

\* Pointer values.
NULL == 0
LitLexicon == -1
LitDictDir == -2
LitProvider == -3
LitRuleFsts == -4
LitRuleFars == -5
Junk == -9

\* The numeric defaults, floats in thousandths.
NoiseScale == 667
NoiseScaleW == 800
LengthScale == 1000
NumThreads == 8
Debug == 0
MaxNumSentences == 2
SilenceScale == 300

Addrs == 1..NumBlocks
CallerStrings == 1..NumStrings
Literals == {LitLexicon, LitDictDir, LitProvider, LitRuleFsts, LitRuleFars}
StrObjs == CallerStrings \cup Literals
\* What a caller may pass for a const char* parameter: nothing is checked,
\* the null pointer included.
StrArgs == CallerStrings \cup {NULL}

VARIABLES
    mem,        \* mem[a]: the bytes of heap block a, read as a config
    allocated,  \* the blocks the allocator has handed out and not taken back
    heapState,  \* "ok", "corrupt" (allocator metadata damaged), "aborted"
                \* (the process is not followed once it is not "ok")
    strmem,     \* the string objects: the caller's buffers and the literals
    ret,        \* the value the last call returned (NULL after a void call)
    libcall,    \* what the last call did with the allocator
    call,       \* the last call the caller made
    handles,    \* the caller's record of each handle it was given
    misuse      \* the caller has released a handle it no longer held

vars == <<mem, allocated, heapState, strmem, ret, libcall, call, handles, misuse>>

\* calloc(1, sizeof(SherpaOnnxOfflineTtsConfig)) / memset(config, 0, ...):
\* every byte zero.
ZeroVits ==
    [model |-> NULL, lexicon |-> NULL, tokens |-> NULL, data_dir |-> NULL,
     noise_scale |-> 0, noise_scale_w |-> 0, length_scale |-> 0,
     dict_dir |-> NULL]

ZeroMatcha ==
    [acoustic_model |-> NULL, vocoder |-> NULL, lexicon |-> NULL,
     tokens |-> NULL, data_dir |-> NULL, noise_scale |-> 0,
     length_scale |-> 0]

ZeroKokoro ==
    [model |-> NULL, voices |-> NULL, vocode |-> NULL, num_tasks |-> 0]

ZeroKitten ==
    [encoder |-> NULL, embedding |-> NULL, t2s |-> NULL, vocoder |-> NULL,
     lexicon |-> NULL, tokens |-> NULL, data_dir |-> NULL,
     length_scale |-> 0]

ZeroModel ==
    [vits |-> ZeroVits, num_threads |-> 0, debug |-> 0, provider |-> NULL,
     matcha |-> ZeroMatcha, kokoro |-> ZeroKokoro, kitten |-> ZeroKitten]

ZeroConfig ==
    [model |-> ZeroModel, rule_fsts |-> NULL, max_num_sentences |-> 0,
     rule_fars |-> NULL, silence_scale |-> 0]

\* The bytes of a block the program has not initialised, or has given back:
\* nothing in them is zero or a usable pointer.
Indeterminate ==
    [model |->
       [vits |-> [f \in DOMAIN ZeroVits |-> Junk],
        num_threads |-> Junk, debug |-> Junk, provider |-> Junk,
        matcha |-> [f \in DOMAIN ZeroMatcha |-> Junk],
        kokoro |-> [f \in DOMAIN ZeroKokoro |-> Junk],
        kitten |-> [f \in DOMAIN ZeroKitten |-> Junk]],
     rule_fsts |-> Junk, max_num_sentences |-> Junk,
     rule_fars |-> Junk, silence_scale |-> Junk]

\* The string objects at start: the caller's buffers hold paths, the
\* literals hold "" and "cpu".
InitStrmem ==
    [s \in StrObjs |->
       [valid |-> TRUE,
        bytes |-> IF s = LitProvider THEN "cpu"
                  ELSE IF s \in Literals THEN ""
                  ELSE IF s = 1 THEN "model.onnx"
                  ELSE IF s = 2 THEN "tokens.txt"
                  ELSE "/data"]]

NoHandle == [state |-> "none", model_path |-> NULL, tokens_path |-> NULL,
             data_dir |-> NULL]

Init ==
    /\ mem = [a \in Addrs |-> Indeterminate]
    /\ allocated = {}
    /\ heapState = "ok"
    /\ strmem = InitStrmem
    /\ ret = NULL
    /\ libcall = "none"
    /\ call = [op |-> "none", arg |-> NULL]
    /\ handles = [a \in Addrs |-> NoHandle]
    /\ misuse = FALSE

\* Faulty variant: one static config handed out by every call.
CallocResults_static == {NULL, 1}

\* calloc: NULL (it may fail at any time) or a block not handed out; the
\* block comes with every byte zero.
CallocResults == {NULL} \cup (Addrs \ allocated)

\* memset(config, 0, sizeof(SherpaOnnxOfflineTtsConfig)).
Memset(cfg) ==
    [model |->
       [vits |-> [f \in DOMAIN cfg.model.vits |-> 0],
        num_threads |-> 0, debug |-> 0, provider |-> 0,
        matcha |-> [f \in DOMAIN cfg.model.matcha |-> 0],
        kokoro |-> [f \in DOMAIN cfg.model.kokoro |-> 0],
        kitten |-> [f \in DOMAIN cfg.model.kitten |-> 0]],
     rule_fsts |-> 0, max_num_sentences |-> 0, rule_fars |-> 0,
     silence_scale |-> 0]

\* Faulty variant: tokens_path and data_dir stored in each other's field.
SetVits_swapped(cfg, model_path, tokens_path, data_dir) ==
    LET c1 == [cfg EXCEPT !.model.vits.model = model_path]
        c2 == [c1 EXCEPT !.model.vits.tokens = data_dir]
        c3 == [c2 EXCEPT !.model.vits.data_dir = tokens_path]
        c4 == [c3 EXCEPT !.model.vits.lexicon = LitLexicon]
        c5 == [c4 EXCEPT !.model.vits.noise_scale = NoiseScale]
        c6 == [c5 EXCEPT !.model.vits.noise_scale_w = NoiseScaleW]
        c7 == [c6 EXCEPT !.model.vits.length_scale = LengthScale]
    IN  [c7 EXCEPT !.model.vits.dict_dir = LitDictDir]

\* Faulty variant: the tokens path also written to the Matcha sub-record.
SetVits_wrongFamily(cfg, model_path, tokens_path, data_dir) ==
    LET c1 == [cfg EXCEPT !.model.vits.model = model_path]
        c2 == [c1 EXCEPT !.model.vits.tokens = tokens_path]
        c2m == [c2 EXCEPT !.model.matcha.tokens = tokens_path]
        c3 == [c2m EXCEPT !.model.vits.data_dir = data_dir]
        c4 == [c3 EXCEPT !.model.vits.lexicon = LitLexicon]
        c5 == [c4 EXCEPT !.model.vits.noise_scale = NoiseScale]
        c6 == [c5 EXCEPT !.model.vits.noise_scale_w = NoiseScaleW]
        c7 == [c6 EXCEPT !.model.vits.length_scale = LengthScale]
    IN  [c7 EXCEPT !.model.vits.dict_dir = LitDictDir]

\* Lines 75..82: the VITS sub-record.
SetVits(cfg, model_path, tokens_path, data_dir) ==
    LET c1 == [cfg EXCEPT !.model.vits.model = model_path]
        c2 == [c1 EXCEPT !.model.vits.tokens = tokens_path]
        c3 == [c2 EXCEPT !.model.vits.data_dir = data_dir]
        c4 == [c3 EXCEPT !.model.vits.lexicon = LitLexicon]
        c5 == [c4 EXCEPT !.model.vits.noise_scale = NoiseScale]
        c6 == [c5 EXCEPT !.model.vits.noise_scale_w = NoiseScaleW]
        c7 == [c6 EXCEPT !.model.vits.length_scale = LengthScale]
    IN  [c7 EXCEPT !.model.vits.dict_dir = LitDictDir]

\* Faulty variant: the thread count of the other revision.
SetModel_twoThreads(cfg) ==
    LET c1 == [cfg EXCEPT !.model.num_threads = 2]
        c2 == [c1 EXCEPT !.model.debug = Debug]
    IN  [c2 EXCEPT !.model.provider = LitProvider]

\* Lines 85..87: the general model config.
SetModel(cfg) ==
    LET c1 == [cfg EXCEPT !.model.num_threads = NumThreads]
        c2 == [c1 EXCEPT !.model.debug = Debug]
    IN  [c2 EXCEPT !.model.provider = LitProvider]

\* Faulty variant: the rule files left null, as in the other revision.
SetTts_nullRules(cfg) ==
    LET c1 == [cfg EXCEPT !.rule_fsts = NULL]
        c2 == [c1 EXCEPT !.rule_fars = NULL]
        c3 == [c2 EXCEPT !.max_num_sentences = MaxNumSentences]
    IN  [c3 EXCEPT !.silence_scale = SilenceScale]

\* Lines 90..93: the top-level fields.
SetTts(cfg) ==
    LET c1 == [cfg EXCEPT !.rule_fsts = LitRuleFsts]
        c2 == [c1 EXCEPT !.rule_fars = LitRuleFars]
        c3 == [c2 EXCEPT !.max_num_sentences = MaxNumSentences]
    IN  [c3 EXCEPT !.silence_scale = SilenceScale]

\* Faulty variant: a null model_path is rejected after the allocation.
createPiperTtsConfig_validating(model_path, tokens_path, data_dir) ==
    /\ heapState = "ok"
    /\ \E config \in CallocResults :
         IF config = NULL
         THEN /\ ret' = NULL
              /\ libcall' = "calloc_failed"
              /\ UNCHANGED <<mem, allocated>>
         ELSE /\ mem' = [mem EXCEPT ![config] = Memset(ZeroConfig)]
              /\ allocated' = allocated \cup {config}
              /\ ret' = IF model_path = NULL THEN NULL ELSE config
              /\ libcall' = "calloc"
    /\ UNCHANGED <<heapState, strmem>>

\* createPiperTtsConfig: calloc, the null check, memset, the assignments,
\* return.
createPiperTtsConfig(model_path, tokens_path, data_dir) ==
    /\ heapState = "ok"
    /\ \E config \in CallocResults :
         IF config = NULL
         THEN /\ ret' = NULL
              /\ libcall' = "calloc_failed"
              /\ UNCHANGED <<mem, allocated>>
         ELSE /\ mem' = [mem EXCEPT ![config] =
                           SetTts(SetModel(SetVits(Memset(ZeroConfig),
                                                   model_path, tokens_path,
                                                   data_dir)))]
              /\ allocated' = allocated \cup {config}
              /\ ret' = config
              /\ libcall' = "calloc"
    /\ UNCHANGED <<heapState, strmem>>

\* free(p) of the C library, p not null.  A block in use is taken back and
\* its bytes are no longer the program's.  Any other p is undefined
\* behaviour: the call may go unnoticed, damage the allocator, or abort
\* the process.
LibcFree(p) ==
    IF p \in allocated
    THEN /\ allocated' = allocated \ {p}
         /\ mem' = [mem EXCEPT ![p] = Indeterminate]
         /\ UNCHANGED heapState
    ELSE /\ heapState' \in {heapState, "corrupt", "aborted"}
         /\ UNCHANGED <<mem, allocated>>

\* Faulty variant: no null check, and the handle is read before it is freed.
freePiperTtsConfig_deref(config) ==
    /\ heapState = "ok"
    /\ IF config # NULL
       THEN /\ LibcFree(config)
            /\ libcall' = "free"
       ELSE /\ libcall' = "none"
            /\ heapState' = "aborted"
            /\ UNCHANGED <<mem, allocated>>
    /\ ret' = NULL
    /\ UNCHANGED strmem

\* Faulty variant: the null check inverted, if (!config) free(config).
freePiperTtsConfig_inverted(config) ==
    /\ heapState = "ok"
    /\ libcall' = IF config = NULL THEN "free" ELSE "none"
    /\ ret' = NULL
    /\ UNCHANGED <<mem, allocated, heapState, strmem>>

\* Faulty variant: the three path strings are freed with the config.
freePiperTtsConfig_deep(config) ==
    /\ heapState = "ok"
    /\ IF config # NULL
       THEN /\ LibcFree(config)
            /\ libcall' = "free"
            /\ strmem' = [s \in StrObjs |->
                            IF s \in {mem[config].model.vits.model,
                                      mem[config].model.vits.tokens,
                                      mem[config].model.vits.data_dir}
                            THEN [strmem[s] EXCEPT !.valid = FALSE]
                            ELSE strmem[s]]
       ELSE /\ libcall' = "none"
            /\ UNCHANGED <<mem, allocated, heapState, strmem>>
    /\ ret' = NULL

\* Faulty variant: a handle that is not in use is ignored.
freePiperTtsConfig_once(config) ==
    /\ heapState = "ok"
    /\ IF config \in allocated
       THEN /\ LibcFree(config)
            /\ libcall' = "free"
       ELSE /\ libcall' = "none"
            /\ UNCHANGED <<mem, allocated, heapState>>
    /\ ret' = NULL
    /\ UNCHANGED strmem

\* freePiperTtsConfig: if (config) free(config).
freePiperTtsConfig(config) ==
    /\ heapState = "ok"
    /\ IF config # NULL
       THEN /\ LibcFree(config)
            /\ libcall' = "free"
       ELSE /\ libcall' = "none"
            /\ UNCHANGED <<mem, allocated, heapState>>
    /\ ret' = NULL
    /\ UNCHANGED strmem

\* The caller (the Swift side, PiperTTSBridge.h): it passes any three
\* strings and records the handle it gets back with what it passed.
CallerCreate(model_path, tokens_path, data_dir) ==
    /\ createPiperTtsConfig(model_path, tokens_path, data_dir)
    /\ call' = [op |-> "create", arg |-> NULL]
    /\ handles' = IF ret' = NULL THEN handles
                  ELSE [handles EXCEPT ![ret'] =
                          [state |-> "held", model_path |-> model_path,
                           tokens_path |-> tokens_path,
                           data_dir |-> data_dir]]
    /\ UNCHANGED misuse

\* The handles the caller can pass to freePiperTtsConfig: the absent one,
\* one it holds, or one it has released already.
Passable == {NULL} \cup {a \in Addrs : handles[a].state # "none"}

CallerDestroy(h) ==
    /\ freePiperTtsConfig(h)
    /\ call' = [op |-> "free", arg |-> h]
    /\ handles' = IF h = NULL THEN handles
                  ELSE [handles EXCEPT ![h] =
                          [NoHandle EXCEPT !.state = "released"]]
    /\ misuse' = (misuse \/ (h # NULL /\ handles[h].state # "held"))

Next ==
    \/ \E m \in StrArgs, t \in StrArgs, d \in StrArgs : CallerCreate(m, t, d)
    \/ \E h \in Passable : CallerDestroy(h)

Spec == Init /\ [][Next]_vars

----------------------------------------------------------------------------
\* The properties.

\* The last call was createPiperTtsConfig and it returned a handle.
Created == call.op = "create" /\ ret # NULL

\* The handles the caller holds: returned by create, not yet released.
Held == {a \in Addrs : handles[a].state = "held"}

\* The values of the const char* fields of a config.
PointerFields(cfg) ==
    {cfg.model.vits.model, cfg.model.vits.lexicon, cfg.model.vits.tokens,
     cfg.model.vits.data_dir, cfg.model.vits.dict_dir, cfg.model.provider,
     cfg.model.matcha.acoustic_model, cfg.model.matcha.vocoder,
     cfg.model.matcha.lexicon, cfg.model.matcha.tokens,
     cfg.model.matcha.data_dir, cfg.model.kokoro.model,
     cfg.model.kokoro.voices, cfg.model.kokoro.vocode,
     cfg.model.kitten.encoder, cfg.model.kitten.embedding,
     cfg.model.kitten.t2s, cfg.model.kitten.vocoder,
     cfg.model.kitten.lexicon, cfg.model.kitten.tokens,
     cfg.model.kitten.data_dir, cfg.rule_fsts, cfg.rule_fars}

\* p points to a valid string object holding b.
PointsTo(p, b) == p \in StrObjs /\ strmem[p].valid /\ strmem[p].bytes = b

\* C1: whatever the three inputs, createPiperTtsConfig returns a handle
\* unless the allocation failed, and the config's vits.model, vits.tokens
\* and vits.data_dir hold the very pointers the caller passed for
\* model_path, tokens_path and data_dir, each in its own field.
C1_InputsStored ==
    /\ (call.op = "create" /\ libcall = "calloc") => ret # NULL
    /\ Created =>
         /\ mem[ret].model.vits.model = handles[ret].model_path
         /\ mem[ret].model.vits.tokens = handles[ret].tokens_path
         /\ mem[ret].model.vits.data_dir = handles[ret].data_dir

\* A create that was given a null model_path and a buffer for tokens_path.
C1_Witness ==
    /\ Created
    /\ handles[ret].model_path = NULL
    /\ handles[ret].tokens_path = 1
    /\ handles[ret].data_dir = NULL

\* C2: every config createPiperTtsConfig returns has noise_scale 0.667,
\* noise_scale_w 0.8, length_scale 1.0, max_num_sentences 2, silence_scale
\* 0.3, debug 0, provider "cpu" and num_threads 8, whatever the inputs.
C2_Defaults ==
    Created =>
      /\ mem[ret].model.vits.noise_scale = 667
      /\ mem[ret].model.vits.noise_scale_w = 800
      /\ mem[ret].model.vits.length_scale = 1000
      /\ mem[ret].max_num_sentences = 2
      /\ mem[ret].silence_scale = 300
      /\ mem[ret].model.debug = 0
      /\ PointsTo(mem[ret].model.provider, "cpu")
      /\ mem[ret].model.num_threads = 8

\* A create with all three inputs given, and one with none of them.
C2_Witness ==
    /\ Created
    /\ \E a \in Held : /\ handles[a].model_path # NULL
                       /\ handles[a].tokens_path # NULL
                       /\ handles[a].data_dir # NULL
    /\ \E a \in Held : /\ handles[a].model_path = NULL
                       /\ handles[a].tokens_path = NULL
                       /\ handles[a].data_dir = NULL

\* C3: a createPiperTtsConfig whose allocation fails returns NULL, writes
\* no byte of the heap, leaves no block allocated that was not before and
\* does not end the process; and create returns NULL only when the
\* allocation failed.
C3_AllocFailure ==
    [][/\ libcall' = "calloc_failed" =>
            /\ ret' = NULL
            /\ mem' = mem
            /\ allocated' = allocated
            /\ heapState' = heapState
       /\ (call'.op = "create" /\ ret' = NULL) =>
            /\ libcall' = "calloc_failed"
            /\ allocated' = allocated]_vars

\* A failed create while one config is live and a block is still free.
C3_Witness ==
    /\ call.op = "create"
    /\ libcall = "calloc_failed"
    /\ ret = NULL
    /\ allocated # {}
    /\ allocated # Addrs

\* C4: in every config createPiperTtsConfig returns, every field of
\* model.matcha, model.kokoro and model.kitten is zero.
C4_OtherFamiliesZero ==
    Created =>
      /\ \A f \in DOMAIN mem[ret].model.matcha : mem[ret].model.matcha[f] = 0
      /\ \A f \in DOMAIN mem[ret].model.kokoro : mem[ret].model.kokoro[f] = 0
      /\ \A f \in DOMAIN mem[ret].model.kitten : mem[ret].model.kitten[f] = 0

\* A create with every input given, after another handle was released.
C4_Witness ==
    /\ Created
    /\ mem[ret].model.vits.model # NULL
    /\ mem[ret].model.vits.tokens # NULL
    /\ mem[ret].model.vits.data_dir # NULL
    /\ \E a \in Addrs : handles[a].state = "released"

\* C5: freePiperTtsConfig(NULL) calls nothing of the allocator and leaves
\* the heap, the allocated blocks, the strings and the process as they
\* were, in every state.
C5_FreeNullNoOp ==
    [][(call'.op = "free" /\ call'.arg = NULL) =>
          /\ libcall' = "none"
          /\ mem' = mem
          /\ allocated' = allocated
          /\ heapState' = heapState
          /\ strmem' = strmem]_vars

\* freePiperTtsConfig(NULL) called while a config is live.
C5_Witness ==
    /\ call.op = "free"
    /\ call.arg = NULL
    /\ libcall = "none"
    /\ allocated # {}
    /\ heapState = "ok"

\* C6: as long as the caller has released no handle twice, the allocated
\* blocks are exactly the handles it holds; none is left once it holds none.
C6_NoLeak ==
    ~misuse => /\ allocated = Held
               /\ heapState = "ok"

\* Every block was handed out and released, each once.
C6_Witness ==
    /\ ~misuse
    /\ \A a \in Addrs : handles[a].state = "released"
    /\ allocated = {}

\* C7: freePiperTtsConfig leaves every string object, the caller's and the
\* literals, valid and with its bytes.
C7_StringsUntouched ==
    [][call'.op = "free" => strmem' = strmem]_vars

\* A held handle was released: free took its block back, and every string
\* object is as it was at the start.
C7_Witness ==
    /\ call.op = "free"
    /\ call.arg # NULL
    /\ libcall = "free"
    /\ call.arg \notin allocated
    /\ \A s \in StrObjs : strmem[s] = InitStrmem[s]

\* C8: in every config createPiperTtsConfig returns, vits.lexicon,
\* vits.dict_dir, rule_fsts and rule_fars point to a valid empty string,
\* and every pointer field is null, one of the three inputs, or points to
\* a valid "" or "cpu".
C8_UnsetSentinels ==
    Created =>
      /\ PointsTo(mem[ret].model.vits.lexicon, "")
      /\ PointsTo(mem[ret].model.vits.dict_dir, "")
      /\ PointsTo(mem[ret].rule_fsts, "")
      /\ PointsTo(mem[ret].rule_fars, "")
      /\ \A p \in PointerFields(mem[ret]) :
           \/ p = NULL
           \/ p \in {handles[ret].model_path, handles[ret].tokens_path,
                     handles[ret].data_dir}
           \/ PointsTo(p, "")
           \/ PointsTo(p, "cpu")

\* A create that was given a buffer for model_path and null for data_dir.
C8_Witness ==
    /\ Created
    /\ handles[ret].data_dir = NULL
    /\ handles[ret].model_path # NULL
    /\ libcall = "calloc"

\* C9: freePiperTtsConfig passes every non-null handle to free, also one
\* that was released before: nothing of the shim stops a second release.
C9_NoReleaseRecord ==
    [][(call'.op = "free" /\ call'.arg # NULL) => libcall' = "free"]_vars

\* A handle released a second time reached free.
C9_Witness ==
    /\ call.op = "free"
    /\ call.arg # NULL
    /\ libcall = "free"
    /\ misuse
    /\ heapState # "ok"

\* C10: as long as the caller has released no handle twice, a create never
\* returns a handle the caller holds, and a create, or a release of another
\* handle, leaves a held handle's config allocated with every field as it
\* was.
C10_Independent ==
    [][\A a \in Held :
         ~misuse' =>
           /\ call'.op = "create" =>
                /\ ret' # a
                /\ mem'[a] = mem[a]
                /\ a \in allocated'
           /\ (call'.op = "free" /\ call'.arg # a) =>
                /\ mem'[a] = mem[a]
                /\ a \in allocated']_vars

\* Two configs with different paths live at once, the second just created.
C10_Witness ==
    /\ ~misuse
    /\ Created
    /\ \E a \in Held : /\ a # ret
                       /\ mem[a].model.vits.model # mem[ret].model.vits.model
                       /\ mem[a].model.num_threads = 8

====
